---------------------------- MODULE Spec2Model ----------------------------
(***************************************************************************)
(* A model of frescobaldi_app/documentinfo.py (and of the SessionEditor of  *)
(* frescobaldi_app/sessiondialog.py): the token extractors, the             *)
(* mode and version queries, the per-document cache that is reset when the *)
(* contents change, the two file caches, the include resolver and the      *)
(* basename derivation.                                                     *)
(*                                                                          *)
(* Text is a sequence of one-character strings, so that ''.join is real    *)
(* concatenation and re.findall(r"\d+") really scans characters.  A token  *)
(* is a record [k |-> its class, t |-> its text].                           *)
(***************************************************************************)
EXTENDS Naturals, Sequences, FiniteSets, TLC

VARIABLES
    doc,        \* the document: its token stream, its variables, the lexer's guess
    out,        \* what the last call returned (and which collaborators it used)
    cache,      \* resetoncontentschanged: method -> cached entry
    listeners,  \* resetoncontentschanged: method -> connected reset callbacks
    fs,         \* the disk: path -> file record
    incCache,   \* _include_args_cache
    outCache,   \* _output_args_cache
    runReads,   \* history: reads since the file's mtime last changed
    runCalls,   \* history: returned calls since the file's mtime last changed
    env,        \* includefiles/basenames: the document's place in the file system
    dialog,     \* the SessionEditor: its widgets, _originalName, whether it is open
    sessions    \* sessionmanager: session name -> its settings

vars == <<doc, out, cache, listeners, fs, incCache, outCache, runReads, runCalls, env,
          dialog, sessions>>

-----------------------------------------------------------------------------
(* Bounds *)

MaxLen == 4         \* longest token stream enumerated
MaxMtime == 3       \* file modification times run 1..MaxMtime
MaxDepth == 5       \* nesting of tryarg calls explored before the interpreter gives up

-----------------------------------------------------------------------------
(* Text *)

DigitChars == {"0", "1", "2", "3", "4", "5", "6", "7", "8", "9"}

SpaceChars == {" "}

\* The element of a one-element set.  Only({F(v) : v \in {e}}) is F(e) with e
\* computed once and named v, the way the code binds a value to a local.
Only(S) == CHOOSE x \in S : TRUE

DigitVal(c) ==
    CASE c = "0" -> 0 [] c = "1" -> 1 [] c = "2" -> 2 [] c = "3" -> 3
      [] c = "4" -> 4 [] c = "5" -> 5 [] c = "6" -> 6 [] c = "7" -> 7
      [] c = "8" -> 8 [] c = "9" -> 9

\* int(): the value of a run of digits
RECURSIVE IntOf(_)
IntOf(s) ==
    IF s = <<>> THEN 0
    ELSE 10 * IntOf(SubSeq(s, 1, Len(s) - 1)) + DigitVal(s[Len(s)])

\* The end of the maximal run of characters of set C that starts at i.
RECURSIVE RunEnd(_, _, _)
RunEnd(s, i, C) ==
    IF i <= Len(s) /\ s[i] \in C THEN RunEnd(s, i + 1, C) ELSE i - 1

\* tuple(map(int, re.findall(r"\d+", s))), scanning from position i
RECURSIVE FindallInts(_, _)
FindallInts(s, i) ==
    IF i > Len(s) THEN <<>>
    ELSE IF s[i] \in DigitChars
         THEN LET e == RunEnd(s, i, DigitChars)
              IN  <<IntOf(SubSeq(s, i, e))>> \o FindallInts(s, e + 1)
         ELSE FindallInts(s, i + 1)

\* ''.join(ts): the concatenation of the texts of a sequence of tokens
RECURSIVE Join(_)
Join(ts) == IF ts = <<>> THEN <<>> ELSE Head(ts).t \o Join(Tail(ts))

-----------------------------------------------------------------------------
(* Tokens *)

QuoteText == <<"\"">>
IncludeText == <<"\\", "i", "n", "c", "l", "u", "d", "e">>
VersionText == <<"\\", "v", "e", "r", "s", "i", "o", "n">>
OutputNameText == <<"\\", "b", "O", "N">>
OutputSuffixText == <<"\\", "b", "O", "S">>
SchemeSuffixText == <<"o", "-", "s">>

Tok(k, t) == [k |-> k, t |-> t]

KwInclude == Tok("Keyword", IncludeText)
KwVersion == Tok("Keyword", VersionText)
CmdName == Tok("Command", OutputNameText)
CmdSuffix == Tok("Command", OutputSuffixText)
WordSuffix == Tok("SchemeWord", SchemeSuffixText)
SchemeStart == Tok("SchemeStart", <<"#">>)
Space == Tok("Space", <<" ">>)
Comment == Tok("Comment", <<"%", "c">>)
\* a comment that holds the text \version "2.16"
CommentV == Tok("Comment", <<"%">> \o VersionText \o <<" ", "\"", "2", ".", "1", "6", "\"">>)
Quote == Tok("Quote", QuoteText)
StrA == Tok("String", <<"a", ".", "l", "y">>)
StrB == Tok("String", <<"b">>)
StrBly == Tok("String", <<"b", ".", "l", "y">>)
StrDotA == Tok("String", <<".", "/", "a", ".", "l", "y">>)
StrV == Tok("String", <<"2", ".", "2", "0", ".", "0">>)
Bare == Tok("Number", <<"2", ".", "1", "8">>)

SkipKinds == {"Space", "Comment"}

OutputSkipKinds == {"SchemeStart", "Space", "Comment"}

\* The inner loop "for token in tokens: if not isinstance(token, kinds): break"
\* entered after the token at i: the index of the token the loop variable holds
\* afterwards.  When the stream runs out the variable keeps the last token
\* that was fetched (the trigger itself when nothing follows it).
RECURSIVE SkipIndex(_, _, _)
SkipIndex(s, i, kinds) ==
    IF i + 1 > Len(s) THEN i
    ELSE IF s[i + 1].k \in kinds THEN SkipIndex(s, i + 1, kinds) ELSE i + 1

\* Where the outer loop fetches its next token after that inner loop: after the
\* token that broke it, or past the end when the stream ran out.
AfterSkip(s, i, kinds) ==
    LET j == SkipIndex(s, i, kinds)
    IN  IF j > i /\ s[j].k \notin kinds THEN j + 1 ELSE Len(s) + 1

\* itertools.takewhile(lambda t: t != '"', tokens) entered after the token at j:
\* the index of the token that stops it (Len(s) + 1 when the stream runs out).
RECURSIVE QuoteEnd(_, _)
QuoteEnd(s, j) ==
    IF j + 1 > Len(s) THEN Len(s) + 1
    ELSE IF s[j + 1].t = QuoteText THEN j + 1 ELSE QuoteEnd(s, j + 1)

\* The collected text thrown away when the stream ends before the terminator
Collected_Terminated(s, j) ==
    IF QuoteEnd(s, j) > Len(s) THEN <<>> ELSE Join(SubSeq(s, j + 1, QuoteEnd(s, j) - 1))

Collected(s, j) == Join(SubSeq(s, j + 1, QuoteEnd(s, j) - 1))

\* includeargs(tokens), the outer loop fetching its next token at index i
RECURSIVE includeargsFrom(_, _)
includeargsFrom(s, i) ==
    IF i > Len(s) THEN <<>>
    ELSE IF s[i].k = "Keyword" /\ s[i].t = IncludeText
         THEN LET j == SkipIndex(s, i, SkipKinds)
              IN  IF s[j].t = QuoteText
                  THEN <<Collected(s, j)>> \o includeargsFrom(s, QuoteEnd(s, j) + 1)
                  ELSE includeargsFrom(s, AfterSkip(s, i, SkipKinds))
         ELSE includeargsFrom(s, i + 1)

includeargs(s) == includeargsFrom(s, 1)

\* The trigger test of outputargs: "name", "suffix" or "" (found = None)
Found(tok) ==
    IF tok.k = "Command" /\ tok.t = OutputNameText THEN "name"
    ELSE IF tok.k = "Command" /\ tok.t = OutputSuffixText THEN "suffix"
    ELSE IF tok.k = "SchemeWord" /\ tok.t = SchemeSuffixText THEN "suffix"
    ELSE ""

\* outputargs(tokens), the outer loop fetching its next token at index i
RECURSIVE outputargsFrom(_, _)
outputargsFrom(s, i) ==
    IF i > Len(s) THEN <<>>
    ELSE IF Found(s[i]) # ""
         THEN LET j == SkipIndex(s, i, OutputSkipKinds)
              IN  IF s[j].t = QuoteText
                  THEN <<[kind |-> Found(s[i]), value |-> Collected(s, j)]>>
                       \o outputargsFrom(s, QuoteEnd(s, j) + 1)
                  ELSE outputargsFrom(s, AfterSkip(s, i, OutputSkipKinds))
         ELSE outputargsFrom(s, i + 1)

outputargs(s) == outputargsFrom(s, 1)

\* DocumentInfo.hasinclude: True, or None when the loop falls through
hasinclude(s) == \E i \in 1..Len(s) : s[i].k = "Keyword" /\ s[i].t = IncludeText

-----------------------------------------------------------------------------
(* Mode and version *)

\* ly.tokenize.modes
Modes == {"lilypond", "html", "texinfo", "latex", "docbook"}

Ret(val) == [st |-> "ret", v |-> val, guessed |-> 0]

None == [st |-> "none", v |-> <<>>, guessed |-> 0]

Raised(exc) == [st |-> exc, v |-> <<>>, guessed |-> 0]

\* textmode(text, guess).  The text's "mode" variable is text.vmode ("" when it
\* is not set) and text.guess is what ly.tokenize.guessMode answers for it;
\* guessed counts the calls of guessMode.
textmode(text, guess) ==
    IF text.vmode \in Modes THEN Ret(text.vmode)
    ELSE IF guess THEN [st |-> "ret", v |-> text.guess, guessed |-> 1]
    ELSE None

\* mode with the guess flag ignored: the heuristic runs whenever no known mode is declared
mode_AlwaysGuess(d, guess) ==
    IF d.vmode \in Modes THEN Ret(d.vmode)
    ELSE [st |-> "ret", v |-> d.guess, guessed |-> 1]

\* DocumentInfo.mode(guess)
mode(d, guess) ==
    IF d.vmode \in Modes THEN Ret(d.vmode)
    ELSE IF guess THEN [st |-> "ret", v |-> d.guess, guessed |-> 1]
    ELSE None

\* document().toPlainText(): the tokens partition the text
toPlainText(d) == Join(d.tokens)

\* Whether text[i..] starts with the sequence w
StartsWith(text, i, w) ==
    /\ i + Len(w) - 1 <= Len(text)
    /\ SubSeq(text, i, i + Len(w) - 1) = w

\* The end of the greedy (\.\d+)* that starts after position e
RECURSIVE DotGroupsEnd(_, _)
DotGroupsEnd(text, e) ==
    IF /\ e + 2 <= Len(text)
       /\ text[e + 1] = "."
       /\ text[e + 2] \in DigitChars
    THEN DotGroupsEnd(text, RunEnd(text, e + 2, DigitChars))
    ELSE e

\* A match of \\version\s*"(\d+\.\d+(\.\d+)*)" at position i: the bounds of
\* group 1, or <<0, 0>> when the pattern does not match there.
MatchAt(text, i) ==
    IF ~StartsWith(text, i, VersionText) THEN <<0, 0>>
    ELSE LET q  == RunEnd(text, i + Len(VersionText), SpaceChars) + 1
             e1 == RunEnd(text, q + 1, DigitChars)
             e2 == DotGroupsEnd(text, e1)
         IN  IF /\ q <= Len(text) /\ text[q] = "\""
                /\ e1 >= q + 1
                /\ e2 > e1
                /\ e2 + 1 <= Len(text) /\ text[e2 + 1] = "\""
             THEN <<q + 1, e2>>
             ELSE <<0, 0>>

\* re.search(...): the leftmost match, from position i on
RECURSIVE SearchVersion(_, _)
SearchVersion(text, i) ==
    IF i > Len(text) THEN <<0, 0>>
    ELSE IF MatchAt(text, i) # <<0, 0>> THEN MatchAt(text, i)
    ELSE SearchVersion(text, i + 1)

\* The index of the first \version keyword at or after i, 0 when there is none
RECURSIVE FirstVersion(_, _)
FirstVersion(s, i) ==
    IF i > Len(s) THEN 0
    ELSE IF s[i].k = "Keyword" /\ s[i].t = VersionText THEN i
    ELSE FirstVersion(s, i + 1)

\* The body of the outer loop once the \version keyword at i is found.  In the
\* unquoted branch pred calls isinstance with three arguments, which raises
\* TypeError as soon as takewhile hands it a token.
VersionInSyntax(s, i) ==
    LET j == SkipIndex(s, i, SkipKinds)
    IN  IF s[j].t = QuoteText
        THEN Ret(FindallInts(Collected(s, j), 1))
        ELSE IF AfterSkip(s, i, SkipKinds) <= Len(s)
             THEN Raised("TypeError")
             ELSE Ret(<<>>)

VersionFromVariable(d) == Ret(FindallInts(d.vversion, 1))

\* tuple(map(int, m.group(1).split('.'))): group 1 is digits joined by dots
VersionFromText(d) ==
    LET text == toPlainText(d)
        m    == SearchVersion(text, 1)
    IN  IF m # <<0, 0>> THEN Ret(FindallInts(SubSeq(text, m[1], m[2]), 1)) ELSE None

\* version with the document variable consulted before the token stream
version_VariableFirst(d) ==
    LET i == FirstVersion(d.tokens, 1)
    IN  IF d.vversion # <<>> THEN VersionFromVariable(d)
        ELSE IF i # 0 THEN VersionInSyntax(d.tokens, i)
        ELSE IF mode(d, TRUE).v # "lilypond" THEN VersionFromText(d)
        ELSE None

\* version going on with the variable and the raw text when the version found
\* in the syntax has no number
version_FallsThrough(d) ==
    LET i == FirstVersion(d.tokens, 1)
    IN  IF i # 0 /\ VersionInSyntax(d.tokens, i) # Ret(<<>>)
        THEN VersionInSyntax(d.tokens, i)
        ELSE IF d.vversion # <<>> THEN VersionFromVariable(d)
        ELSE IF mode(d, TRUE).v # "lilypond" THEN VersionFromText(d)
        ELSE None

\* DocumentInfo.version, the function the decorator wraps
version(d) ==
    LET i == FirstVersion(d.tokens, 1)
    IN  IF i # 0 THEN VersionInSyntax(d.tokens, i)
        ELSE IF d.vversion # <<>> THEN VersionFromVariable(d)
        ELSE IF mode(d, TRUE).v # "lilypond" THEN VersionFromText(d)
        ELSE None

-----------------------------------------------------------------------------
(* resetoncontentschanged *)

CachedMethods == {"version", "hasinclude", "includeargs", "outputargs"}

NoEntry == [has |-> FALSE, val |-> None]

\* func(self): the method the decorator wraps
Func(m, d) ==
    CASE m = "version"     -> version(d)
      [] m = "hasinclude"  -> IF hasinclude(d.tokens) THEN Ret(TRUE) ELSE None
      [] m = "includeargs" -> Ret(includeargs(d.tokens))
      [] m = "outputargs"  -> Ret(outputargs(d.tokens))

\* reset with "del _cache[self]" left out
reset_KeepsEntry(entry) == entry

\* reset(), connected to contentsChanged: del _cache[self]
reset(entry) == NoEntry

\* The wrapper connecting a reset on every call, a cached value or not
CallCached_ConnectsOnHit(c, l, d, m) ==
    IF c[m].has
    THEN [res |-> c[m].val, cache |-> c, listeners |-> [l EXCEPT ![m] = @ + 1],
          ran |-> FALSE]
    ELSE Only({IF result.st \in {"ret", "none"}
               THEN [res |-> result,
                     cache |-> [c EXCEPT ![m] = [has |-> TRUE, val |-> result]],
                     listeners |-> [l EXCEPT ![m] = @ + 1],
                     ran |-> TRUE]
               ELSE [res |-> result, cache |-> c, listeners |-> l, ran |-> TRUE] :
                   result \in {Func(m, d)}})

\* The wrapper f(self) of method m on document d: the cached value, or
\* func(self) computed, stored and a reset connected.  An exception leaves
\* before the store.  ran: func(self) was called.
CallCached(c, l, d, m) ==
    IF c[m].has
    THEN [res |-> c[m].val, cache |-> c, listeners |-> l, ran |-> FALSE]
    ELSE Only({IF result.st \in {"ret", "none"}
               THEN [res |-> result,
                     cache |-> [c EXCEPT ![m] = [has |-> TRUE, val |-> result]],
                     listeners |-> [l EXCEPT ![m] = @ + 1],
                     ran |-> TRUE]
               ELSE [res |-> result, cache |-> c, listeners |-> l, ran |-> TRUE] :
                   result \in {Func(m, d)}})

\* The document emits contentsChanged: every connected reset runs once and
\* disconnects itself.
EmitContentsChanged ==
    /\ cache' = [m \in CachedMethods |->
                    IF listeners[m] > 0 THEN reset(cache[m]) ELSE cache[m]]
    /\ listeners' = [m \in CachedMethods |-> 0]

-----------------------------------------------------------------------------
(* Paths: os.path on strings, and the disk *)

\* The last position of character c in s, 0 when it does not occur
RECURSIVE LastIndexOf(_, _)
LastIndexOf(s, c) ==
    IF s = <<>> THEN 0
    ELSE IF s[Len(s)] = c THEN Len(s)
    ELSE LastIndexOf(SubSeq(s, 1, Len(s) - 1), c)

\* s.rstrip(c)
RECURSIVE RStrip(_, _)
RStrip(s, c) ==
    IF s # <<>> /\ s[Len(s)] = c THEN RStrip(SubSeq(s, 1, Len(s) - 1), c) ELSE s

\* The head that os.path.split and os.path.dirname cut off at the last slash
HeadOf(path) ==
    LET head == SubSeq(path, 1, LastIndexOf(path, "/"))
    IN  IF RStrip(head, "/") # <<>> THEN RStrip(head, "/") ELSE head

\* os.path.dirname(path)
dirname(path) == HeadOf(path)

\* os.path.split(path)[1]
basenameOf(path) == SubSeq(path, LastIndexOf(path, "/") + 1, Len(path))

\* os.path.join(a, b)
join(a, b) ==
    IF b # <<>> /\ b[1] = "/" THEN b
    ELSE IF a = <<>> \/ a[Len(a)] = "/" THEN a \o b
    ELSE a \o <<"/">> \o b

\* The first position at or after i where the file name has a character that
\* is not a dot, 0 when there is none before position dot.
RECURSIVE FirstNonDot(_, _, _)
FirstNonDot(path, i, dot) ==
    IF i >= dot THEN 0
    ELSE IF path[i] # "." THEN i
    ELSE FirstNonDot(path, i + 1, dot)

\* os.path.splitext(path)[0]
splitextRoot(path) ==
    LET sep == LastIndexOf(path, "/")
        dot == LastIndexOf(path, ".")
    IN  IF dot > sep /\ FirstNonDot(path, sep + 1, dot) # 0
        THEN SubSeq(path, 1, dot - 1)
        ELSE path

\* path.split('/'), from position i on
RECURSIVE SplitSlash(_, _)
SplitSlash(path, i) ==
    LET rest == SubSeq(path, i, Len(path))
        k == CHOOSE k \in 1..(Len(rest) + 1) :
                /\ k = Len(rest) + 1 \/ rest[k] = "/"
                /\ \A h \in 1..(k - 1) : rest[h] # "/"
    IN  IF k = Len(rest) + 1 THEN <<rest>>
        ELSE <<SubSeq(rest, 1, k - 1)>> \o SplitSlash(path, i + k)

\* One turn of the loop of os.path.normpath: the components kept so far, after
\* comp
NormStep(comp, new, rooted) ==
    IF comp = <<>> \/ comp = <<".">> THEN new
    ELSE IF \/ comp # <<".", ".">>
            \/ (~rooted /\ new = <<>>)
            \/ (new # <<>> /\ new[Len(new)] = <<".", ".">>)
         THEN Append(new, comp)
         ELSE IF new # <<>> THEN SubSeq(new, 1, Len(new) - 1) ELSE new

\* The loop of os.path.normpath over the components
RECURSIVE NormComps(_, _, _)
NormComps(comps, new, rooted) ==
    IF comps = <<>> THEN new
    ELSE NormComps(Tail(comps), NormStep(Head(comps), new, rooted), rooted)

\* '/'.join(comps)
RECURSIVE JoinSlash(_)
JoinSlash(comps) ==
    IF comps = <<>> THEN <<>>
    ELSE IF Len(comps) = 1 THEN comps[1]
    ELSE comps[1] \o <<"/">> \o JoinSlash(Tail(comps))

\* os.path.normpath(path) (no path here starts with two slashes)
normpath(path) ==
    IF path = <<>> THEN <<".">>
    ELSE LET rooted == path[1] = "/"
             body == JoinSlash(NormComps(SplitSlash(path, 1), <<>>, rooted))
             full == IF rooted THEN <<"/">> \o body ELSE body
         IN  IF full = <<>> THEN <<".">> ELSE full

Root == <<"/">>

\* The disk is a function from normalised absolute paths to entries
\* [kind, mtime, readable, text].
IsDir(fsys, path) ==
    path = Root \/ (path \in DOMAIN fsys /\ fsys[path].kind = "dir")

\* os.path.exists(path): every directory on the way is one, and the path
\* names an entry
exists(fsys, path) ==
    /\ path # <<>>
    /\ \A i \in 2..Len(path) :
          path[i] = "/" => IsDir(fsys, normpath(SubSeq(path, 1, i - 1)))
    /\ normpath(path) = Root \/ normpath(path) \in DOMAIN fsys

\* Whether open(path) succeeds: a regular file the process may read
CanOpen(fsys, path) ==
    /\ exists(fsys, path)
    /\ normpath(path) # Root
    /\ fsys[normpath(path)].kind = "file"
    /\ fsys[normpath(path)].readable

\* os.path.getmtime(path) of an existing path
getmtime(fsys, path) == fsys[normpath(path)].mtime

\* util.decode(f.read())
ReadText(fsys, path) == fsys[normpath(path)].text

-----------------------------------------------------------------------------
(* FileCache and the two cached file readers *)

\* FileCache.__getitem__ succeeds: an entry is stored for the name and the
\* file's mtime is the one stored with it (anything else is a KeyError)
FileCacheHit(c, fsys, filename) ==
    /\ filename \in DOMAIN c
    /\ exists(fsys, filename)
    /\ c[filename].mtime = getmtime(fsys, filename)

\* The cache after a lookup that failed: an entry that no longer matches is
\* removed
FileCacheMiss(c, filename) == [f \in DOMAIN c \ {filename} |-> c[f]]

\* FileCache.__setitem__: the value is stored with the file's current mtime
FileCacheStore(c, fsys, filename, value) ==
    [f \in DOMAIN c \cup {filename} |->
        IF f = filename
        THEN [mtime |-> getmtime(fsys, filename), value |-> value]
        ELSE c[f]]

\* ly.tokenize.state(textmode(text)).tokens(text): the lexer's token stream of
\* the text in the dialect textmode finds
TokensOfText(text) == text.tokens

\* list(includeargs(...)) in includeargsinfile, list(outputargs(...)) in
\* outputargsinfile
Extract(fn, tokens) ==
    IF fn = "includeargsinfile" THEN includeargs(tokens) ELSE outputargs(tokens)

\* The body shared by includeargsinfile and outputargsinfile: the cached value,
\* or the file opened, read, scanned and the result stored.  An IOError of
\* open() leaves before the store.  opened: open() was called; read: the file
\* was read and scanned.
ArgsInFile(fn, c, fsys, filename) ==
    IF FileCacheHit(c, fsys, filename)
    THEN [res |-> Ret(c[filename].value), cache |-> c, opened |-> FALSE, read |-> FALSE]
    ELSE IF ~CanOpen(fsys, filename)
         THEN [res |-> Raised("IOError"), cache |-> FileCacheMiss(c, filename),
               opened |-> TRUE, read |-> FALSE]
         ELSE Only({[res |-> Ret(result),
                     cache |-> FileCacheStore(FileCacheMiss(c, filename),
                                              fsys, filename, result),
                     opened |-> TRUE, read |-> TRUE] :
                       result \in {Extract(fn, TokensOfText(ReadText(fsys, filename)))}})

\* includeargsinfile with the result returned but never stored in the cache
includeargsinfile_NoStore(c, fsys, filename) ==
    Only({IF r.read THEN [r EXCEPT !.cache = FileCacheMiss(c, filename)] ELSE r :
            r \in {ArgsInFile("includeargsinfile", c, fsys, filename)}})

\* includeargsinfile with the IOError caught and an empty list cached for the name
includeargsinfile_Swallow(c, fsys, filename) ==
    Only({IF r.res.st = "IOError" /\ exists(fsys, filename)
          THEN [r EXCEPT !.res = Ret(<<>>),
                         !.cache = FileCacheStore(c, fsys, filename, <<>>)]
          ELSE r :
            r \in {ArgsInFile("includeargsinfile", c, fsys, filename)}})

\* includeargsinfile(filename), on _include_args_cache
includeargsinfile(c, fsys, filename) == ArgsInFile("includeargsinfile", c, fsys, filename)

\* outputargsinfile(filename), on _output_args_cache
outputargsinfile(c, fsys, filename) == ArgsInFile("outputargsinfile", c, fsys, filename)

-----------------------------------------------------------------------------
(* master, includepath and includefiles *)

\* The document's surroundings, env: local is document().url().toLocalFile()
\* ("" when the document has no file), vmaster the "master" variable ("" when
\* it is not set), ipath the include path of the settings, modified is
\* document().isModified() and scratch the path of the document's scratch file
\* ("" when it has none).

\* DocumentInfo.master(): the master file name, "" standing for None
master(e, fsys) ==
    IF e.local # <<>> /\ e.vmaster # <<>>
    THEN LET path == normpath(join(dirname(e.local), e.vmaster))
         IN  IF exists(fsys, path) /\ path # e.local THEN path ELSE <<>>
    ELSE <<>>

\* DocumentInfo.includepath()
includepath(e) == e.ipath

NotAdded(st) == [st |-> st, added |-> FALSE, path |-> <<>>]

\* tryarg, find and the search of the places work on st = [files, cache, log,
\* status]: the set being built, _include_args_cache, one log entry per
\* argument find has dealt with, and "ok" until an exception is on its way out.
\* ctx holds the disk, basedir and ipath; depth counts the tryarg calls in
\* progress.
RECURSIVE tryarg(_, _, _, _, _)
RECURSIVE find(_, _, _, _, _)
RECURSIVE TryEach(_, _, _, _, _)

\* tryarg(directory, arg): [st, added (it returned True), path]
tryarg(st, ctx, directory, arg, depth) ==
    LET path == join(directory, arg)
        Entered(r) ==
            [st EXCEPT !.files = @ \cup {path}, !.cache = r.cache,
                       !.status = IF r.res.st # "ret" THEN r.res.st ELSE @]
    IN  IF exists(ctx.fs, path) /\ path \notin st.files
        THEN IF depth >= MaxDepth
             THEN NotAdded([st EXCEPT !.status = "RecursionError"])
             ELSE Only({IF r.res.st # "ret" THEN NotAdded(Entered(r))
                        ELSE [st |-> find(Entered(r), ctx, r.res.v, dirname(path),
                                          depth + 1),
                              added |-> TRUE, path |-> path] :
                            r \in {includeargsinfile(st.cache, ctx.fs, path)}})
        ELSE NotAdded(st)

\* The places find tries for one argument, in its order: directory and basedir
\* when they are not empty, then every p in ipath
Places(ctx, directory) ==
    (IF directory # <<>> THEN <<directory>> ELSE <<>>)
        \o (IF ctx.basedir # <<>> THEN <<ctx.basedir>> ELSE <<>>)
        \o ctx.ipath

\* The nested ifs and the for loop of find: tryarg on each place until one
\* returns True
TryEach(st, ctx, places, arg, depth) ==
    IF places = <<>> \/ st.status # "ok" THEN NotAdded(st)
    ELSE Only({IF r.added \/ r.st.status # "ok" THEN r
               ELSE TryEach(r.st, ctx, Tail(places), arg, depth) :
                   r \in {tryarg(st, ctx, Head(places), arg, depth)}})

\* The log entry of one argument: where find was looking, the argument, the
\* files before the search and the file the search added
Logged(st, directory, arg, r) ==
    [r.st EXCEPT !.log = Append(@,
        [directory |-> directory, arg |-> arg, before |-> st.files,
         added |-> IF r.added THEN {r.path} ELSE {}])]

\* find(incl_args, directory)
find(st, ctx, incl_args, directory, depth) ==
    IF incl_args = <<>> \/ st.status # "ok" THEN st
    ELSE Only({find(s, ctx, Tail(incl_args), directory, depth) :
                 s \in {Logged(st, directory, Head(incl_args), r) :
                   r \in {TryEach(st, ctx, Places(ctx, directory),
                                  Head(incl_args), depth)}}})

\* The file includefiles starts from and its include arguments: the master's,
\* read from the file, or else the document's own
IncludeStart(e, fsys, d, c, l, ic, m) ==
    IF m # <<>>
    THEN Only({[filename |-> m, args |-> r.res, cache |-> c, listeners |-> l,
                incCache |-> r.cache] :
                  r \in {includeargsinfile(ic, fsys, m)}})
    ELSE IF e.local # <<>>
    THEN Only({[filename |-> e.local, args |-> r.res, cache |-> r.cache,
                listeners |-> r.listeners, incCache |-> ic] :
                  r \in {CallCached(c, l, d, "includeargs")}})
    ELSE [filename |-> <<>>, args |-> Ret(<<>>), cache |-> c, listeners |-> l,
          incCache |-> ic]

\* DocumentInfo.includefiles() on document d with surroundings e: the return
\* value (or the exception), the caches as the call leaves them, and the log
includefiles(e, fsys, d, c, l, ic) ==
    LET Left(s, res, ic1, log) ==
            [res |-> res, cache |-> s.cache, listeners |-> s.listeners,
             incCache |-> ic1, log |-> log]
    IN  Only({IF s.filename = <<>> THEN Left(s, Ret({}), ic, <<>>)
              ELSE IF s.args.st # "ret" THEN Left(s, s.args, s.incCache, <<>>)
              ELSE Only({Left(s, IF st.status # "ok" THEN Raised(st.status)
                                 ELSE Ret(st.files),
                              st.cache, st.log) :
                         st \in {find([files |-> {s.filename}, cache |-> s.incCache,
                                       log |-> <<>>, status |-> "ok"],
                                      [fs |-> fsys, basedir |-> dirname(s.filename),
                                       ipath |-> includepath(e)],
                                      s.args.v, dirname(s.filename), 0)}}) :
                 s \in {IncludeStart(e, fsys, d, c, l, ic, master(e, fsys))}})

-----------------------------------------------------------------------------
(* The state outside the part a specification exercises *)

Idle == [fn |-> "", arg |-> FALSE, res |-> None, ran |-> FALSE]

\* No document yet: an empty text
NoDoc == [tokens |-> <<>>, vmode |-> "", vversion |-> <<>>, guess |-> "lilypond"]

DocIdle ==
    /\ doc = NoDoc
    /\ cache = [m \in CachedMethods |-> NoEntry]
    /\ listeners = [m \in CachedMethods |-> 0]

FilesIdle ==
    /\ fs = <<>>
    /\ incCache = <<>>
    /\ outCache = <<>>
    /\ runReads = <<>>
    /\ runCalls = <<>>

NoEnv == [local |-> <<>>, vmaster |-> <<>>, ipath |-> <<>>, modified |-> FALSE,
          scratch |-> <<>>]

EnvIdle == env = NoEnv

\* No SessionEditor on screen, no session stored
NoDialog == [open |-> FALSE, name |-> <<>>, originalName |-> <<>>, autosave |-> TRUE]

DialogIdle == dialog = NoDialog /\ sessions = <<>>

dialogVars == <<dialog, sessions>>

docVars == <<doc, cache, listeners>>
fileVars == <<fs, incCache, outCache, runReads, runCalls>>

-----------------------------------------------------------------------------
(* SpecScan: the extractors and queries applied to every bounded document *)

SeqsUpTo(V, n) == UNION {[1..k -> V] : k \in 0..n}

ScanVocab == {KwInclude, Space, Comment, Quote, StrA, CmdName, CmdSuffix,
              WordSuffix, SchemeStart}

VersionVocab == {KwVersion, Space, CommentV, Quote, StrV, StrA, Bare}

Version218 == <<"2", ".", "1", "8", ".", "0">>

ScanDocs ==
    {[tokens |-> s, vmode |-> "", vversion |-> <<>>, guess |-> "lilypond"] :
        s \in SeqsUpTo(ScanVocab, MaxLen)}
    \cup
    [tokens : SeqsUpTo(VersionVocab, MaxLen),
     vmode : {"", "html", "nomode"},
     vversion : {<<>>, Version218},
     guess : {"lilypond", "html"}]

ScanInit ==
    /\ doc \in ScanDocs
    /\ out = Idle
    /\ cache = [m \in CachedMethods |-> NoEntry]
    /\ listeners = [m \in CachedMethods |-> 0]
    /\ FilesIdle
    /\ EnvIdle
    /\ DialogIdle

ScanOthers == UNCHANGED <<dialogVars, doc, cache, listeners, fileVars, env>>

ScanIncludeArgs ==
    /\ out' = [fn |-> "includeargs", arg |-> FALSE, ran |-> TRUE,
               res |-> Ret(includeargs(doc.tokens))]
    /\ ScanOthers

ScanOutputArgs ==
    /\ out' = [fn |-> "outputargs", arg |-> FALSE, ran |-> TRUE,
               res |-> Ret(outputargs(doc.tokens))]
    /\ ScanOthers

ScanVersion ==
    /\ out' = [fn |-> "version", arg |-> FALSE, ran |-> TRUE, res |-> version(doc)]
    /\ ScanOthers

ScanMode(guess) ==
    /\ out' = [fn |-> "mode", arg |-> guess, ran |-> TRUE, res |-> mode(doc, guess)]
    /\ ScanOthers

ScanTextmode(guess) ==
    /\ out' = [fn |-> "textmode", arg |-> guess, ran |-> TRUE,
               res |-> textmode([vmode |-> doc.vmode, guess |-> doc.guess], guess)]
    /\ ScanOthers

ScanNext ==
    \/ ScanIncludeArgs
    \/ ScanOutputArgs
    \/ ScanVersion
    \/ \E guess \in BOOLEAN : ScanMode(guess)
    \/ \E guess \in BOOLEAN : ScanTextmode(guess)

SpecScan == ScanInit /\ [][ScanNext]_vars

-----------------------------------------------------------------------------
(* SpecDoc: cached queries interleaved with edits of the document *)

MaxEditLen == 3     \* longest token stream the edited document grows to

EditVocab == {KwInclude, KwVersion, Quote, StrV, CmdSuffix}

\* The documents one edit away: a token typed at the end, the last token
\* deleted, or the "version" variable set or removed.
Edits(d) ==
    {[d EXCEPT !.tokens = Append(@, tok)] : tok \in {t \in EditVocab : Len(d.tokens) < MaxEditLen}}
    \cup {[d EXCEPT !.tokens = SubSeq(@, 1, Len(@) - 1)] : x \in {t \in {0} : d.tokens # <<>>}}
    \cup {[d EXCEPT !.vversion = v] : v \in {<<>>, Version218}}

DocInit ==
    /\ doc = NoDoc
    /\ out = Idle
    /\ cache = [m \in CachedMethods |-> NoEntry]
    /\ listeners = [m \in CachedMethods |-> 0]
    /\ FilesIdle
    /\ EnvIdle
    /\ DialogIdle

Query(m) ==
    \E r \in {CallCached(cache, listeners, doc, m)} :
        /\ cache' = r.cache
        /\ listeners' = r.listeners
        /\ out' = [fn |-> m, arg |-> FALSE, ran |-> r.ran, res |-> r.res]
        /\ UNCHANGED <<dialogVars, doc, fileVars, env>>

Edit(d) ==
    /\ doc' = d
    /\ EmitContentsChanged
    /\ out' = [fn |-> "contentsChanged", arg |-> FALSE, ran |-> FALSE, res |-> None]
    /\ UNCHANGED <<dialogVars, fileVars, env>>

DocNext ==
    \/ \E m \in CachedMethods : Query(m)
    \/ \E d \in Edits(doc) : Edit(d)

SpecDoc == DocInit /\ [][DocNext]_vars

-----------------------------------------------------------------------------
(* SpecFile: the cached file readers interleaved with changes of the files *)

MaxCalls == 3       \* returned calls counted per file between two changes of its mtime

Chars_d == <<"/", "d">>
FileA == <<"/", "d", "/", "a", ".", "l", "y">>
FileB == <<"/", "d", "/", "b", ".", "l", "y">>

FileNames == {FileA}

FileFns == {"includeargsinfile", "outputargsinfile"}

\* What a file may hold
FileTexts ==
    {[tokens |-> s, vmode |-> "", guess |-> "lilypond"] :
        s \in {<<>>,
               <<KwInclude, Quote, StrB, Quote>>,
               <<CmdSuffix, Quote, StrB, Quote, KwInclude, Quote, StrA, Quote>>}}

FileEntry(text, mtime, readable) ==
    [kind |-> "file", mtime |-> mtime, readable |-> readable, text |-> text]

DirEntry == [kind |-> "dir", mtime |-> 1, readable |-> TRUE, text |-> NoDoc]

NoCalls == [fn \in FileFns |-> [f \in FileNames |-> 0]]

FileInit ==
    /\ fs \in {(Chars_d :> DirEntry) @@ [f \in FileNames |-> FileEntry(t, 1, TRUE)] :
                  t \in FileTexts}
    /\ incCache = <<>>
    /\ outCache = <<>>
    /\ runReads = NoCalls
    /\ runCalls = NoCalls
    /\ out = Idle
    /\ DocIdle
    /\ EnvIdle
    /\ DialogIdle

FileOthers == UNCHANGED <<dialogVars, docVars, env>>

Count(counter, fn, f, hit) ==
    [counter EXCEPT ![fn][f] = IF hit THEN @ + 1 ELSE @]

CallIncludeArgsInFile(f) ==
    \E r \in {includeargsinfile(incCache, fs, f)} :
        /\ runCalls["includeargsinfile"][f] < MaxCalls
        /\ incCache' = r.cache
        /\ out' = [fn |-> "includeargsinfile", arg |-> f, ran |-> r.opened, res |-> r.res]
        /\ runReads' = Count(runReads, "includeargsinfile", f, r.read)
        /\ runCalls' = Count(runCalls, "includeargsinfile", f, r.res.st = "ret")
        /\ UNCHANGED <<fs, outCache>>
        /\ FileOthers

CallOutputArgsInFile(f) ==
    \E r \in {outputargsinfile(outCache, fs, f)} :
        /\ runCalls["outputargsinfile"][f] < MaxCalls
        /\ outCache' = r.cache
        /\ out' = [fn |-> "outputargsinfile", arg |-> f, ran |-> r.opened, res |-> r.res]
        /\ runReads' = Count(runReads, "outputargsinfile", f, r.read)
        /\ runCalls' = Count(runCalls, "outputargsinfile", f, r.res.st = "ret")
        /\ UNCHANGED <<fs, incCache>>
        /\ FileOthers

\* The file is written or touched: its modification time moves on
ModifyFile(f, text) ==
    /\ fs[f].mtime < MaxMtime
    /\ fs' = [fs EXCEPT ![f].text = text, ![f].mtime = @ + 1]
    /\ runReads' = [fn \in FileFns |-> [runReads[fn] EXCEPT ![f] = 0]]
    /\ runCalls' = [fn \in FileFns |-> [runCalls[fn] EXCEPT ![f] = 0]]
    /\ out' = [fn |-> "modify", arg |-> f, ran |-> FALSE, res |-> None]
    /\ UNCHANGED <<incCache, outCache>>
    /\ FileOthers

\* The file's permissions change: open() fails or succeeds from now on, the
\* modification time stays
Chmod(f) ==
    /\ fs' = [fs EXCEPT ![f].readable = ~@]
    /\ out' = [fn |-> "chmod", arg |-> f, ran |-> FALSE, res |-> None]
    /\ UNCHANGED <<incCache, outCache, runReads, runCalls>>
    /\ FileOthers

FileNext ==
    \/ \E f \in FileNames : CallIncludeArgsInFile(f)
    \/ \E f \in FileNames : CallOutputArgsInFile(f)
    \/ \E f \in FileNames, text \in FileTexts : ModifyFile(f, text)
    \/ \E f \in FileNames : Chmod(f)

SpecFile == FileInit /\ [][FileNext]_vars

-----------------------------------------------------------------------------
(* SpecIncl: includefiles() on every bounded arrangement of files *)

Chars_p == <<"/", "p">>
Chars_q == <<"/", "q">>
NameA == <<"a", ".", "l", "y">>
NameB == <<"b", ".", "l", "y">>

Including(str) == <<KwInclude, Space, Quote, str, Quote>>

TextOf(s) == [tokens |-> s, vmode |-> "", guess |-> "lilypond"]

\* What the document and the files of its directory may hold
InclStreams ==
    {<<>>, Including(StrA), Including(StrBly), Including(StrDotA),
     Including(StrBly) \o Including(StrBly)}

Dirs == (Chars_d :> DirEntry) @@ (Chars_p :> DirEntry) @@ (Chars_q :> DirEntry)

PathPA == join(Chars_p, NameA)
PathPB == join(Chars_p, NameB)
PathQB == join(Chars_q, NameB)

\* Every disk: the three directories, /d/a.ly, /d/b.ly or not (a file, or a
\* directory of that name), and any of the files of the include path
\* directories
Disks ==
    {Dirs @@ (FileA :> FileEntry(TextOf(sa), 1, TRUE))
          @@ [f \in withB |-> FileEntry(TextOf(sb), 1, TRUE)]
          @@ [f \in extra |-> FileEntry(TextOf(<<>>), 1, TRUE)] :
        sa \in InclStreams, sb \in InclStreams,
        withB \in {{}, {FileB}}, extra \in SUBSET {PathPA, PathPB, PathQB}}
    \cup
    {Dirs @@ (FileA :> FileEntry(TextOf(sa), 1, TRUE)) @@ (FileB :> DirEntry)
          @@ [f \in extra |-> FileEntry(TextOf(<<>>), 1, TRUE)] :
        sa \in InclStreams, extra \in SUBSET {PathPA, PathPB, PathQB}}

IpathChoices == {<<>>, <<Chars_p>>, <<Chars_p, Chars_q>>, <<Chars_q, Chars_p>>}

Envs ==
    [local : {<<>>, FileA}, vmaster : {<<>>, NameB}, ipath : IpathChoices,
     modified : {FALSE}, scratch : {<<>>}]

InclInit ==
    /\ fs \in Disks
    /\ env \in Envs
    /\ doc \in {[NoDoc EXCEPT !.tokens = s] : s \in InclStreams}
    /\ cache = [m \in CachedMethods |-> NoEntry]
    /\ listeners = [m \in CachedMethods |-> 0]
    /\ incCache = <<>>
    /\ outCache = <<>>
    /\ runReads = <<>>
    /\ runCalls = <<>>
    /\ out = Idle
    /\ DialogIdle

CallIncludeFiles ==
    \E r \in {includefiles(env, fs, doc, cache, listeners, incCache)} :
        /\ out' = [fn |-> "includefiles", arg |-> FALSE, ran |-> TRUE, res |-> r.res,
                   log |-> r.log]
        /\ cache' = r.cache
        /\ listeners' = r.listeners
        /\ incCache' = r.incCache
        /\ UNCHANGED <<dialogVars, doc, fs, env, outCache, runReads, runCalls>>

InclNext == CallIncludeFiles

SpecIncl == InclInit /\ [][InclNext]_vars

-----------------------------------------------------------------------------
(* jobinfo and basenames *)

\* The scratch area of the document: scratch.path() is env.scratch, "" until
\* the area exists, and ScratchPath from the first saveDocument() on
ScratchDir == <<"/", "s">>
ScratchPath == <<"/", "s", "/", "x", ".", "l", "y">>

\* scratch.saveDocument(): the disk with the document's text written to the
\* scratch file
saveDocument(fsys, d) ==
    LET text  == [tokens |-> d.tokens, vmode |-> d.vmode, guess |-> d.guess]
        mtime == IF ScratchPath \in DOMAIN fsys THEN fsys[ScratchPath].mtime + 1 ELSE 1
    IN  (ScratchPath :> FileEntry(text, mtime, TRUE)) @@ (ScratchDir :> DirEntry) @@ fsys

\* The three-tuple jobinfo returns
Job(filename, mode_, includepath_) ==
    [filename |-> filename, mode |-> mode_, includepath |-> includepath_]

\* How a call of jobinfo leaves: its return value or exception, the disk, the
\* scratch area and the cache of the decorated methods
JobLeft(res, fsys, e, c, l) ==
    [res |-> res, fs |-> fsys, env |-> e, cache |-> c, listeners |-> l]

\* jobinfo with one of its tests changed: scratchNeeded stands for "not
\* filename or isModified()", and withInclude tells whether hasinclude() is
\* asked before the original directory is appended
JobinfoVariant(e, fsys, d, c, l, create, scratchNeeded, withInclude) ==
    LET filename == e.local
        mode_    == mode(d, TRUE).v
        OfMaster(m) ==
            IF CanOpen(fsys, m)
            THEN JobLeft(Ret(Job(m, textmode(ReadText(fsys, m), TRUE).v, <<>>)),
                         fsys, e, c, l)
            ELSE JobLeft(Raised("IOError"), fsys, e, c, l)
        Created(h) ==
            JobLeft(Ret(Job(ScratchPath, mode_,
                            IF filename # <<>> /\ (h.res.st = "ret" \/ ~withInclude)
                            THEN <<dirname(filename)>> ELSE <<>>)),
                    saveDocument(fsys, d), [e EXCEPT !.scratch = ScratchPath],
                    h.cache, h.listeners)
        OfDocument ==
            IF scratchNeeded
            THEN IF create
                 THEN Only({Created(h) : h \in
                        {IF filename # <<>> THEN CallCached(c, l, d, "hasinclude")
                         ELSE [res |-> None, cache |-> c, listeners |-> l]}})
                 ELSE IF e.scratch # <<>> /\ exists(fsys, e.scratch)
                      THEN JobLeft(Ret(Job(e.scratch, mode_, <<>>)), fsys, e, c, l)
                      ELSE JobLeft(Ret(Job(filename, mode_, <<>>)), fsys, e, c, l)
            ELSE JobLeft(Ret(Job(filename, mode_, <<>>)), fsys, e, c, l)
    IN  Only({IF m # <<>> THEN OfMaster(m) ELSE OfDocument : m \in {master(e, fsys)}})

\* jobinfo with the scratch area used only for a document without a local
\* path: isModified() is not asked
jobinfo_UnsavedOnly(e, fsys, d, c, l, create) ==
    JobinfoVariant(e, fsys, d, c, l, create, e.local = <<>>, TRUE)

\* jobinfo that saves the document whatever 'create' says
jobinfo_AlwaysCreates(e, fsys, d, c, l, create) ==
    JobinfoVariant(e, fsys, d, c, l, TRUE, e.local = <<>> \/ e.modified, TRUE)

\* jobinfo that appends the original directory without asking hasinclude()
jobinfo_IncludeUnasked(e, fsys, d, c, l, create) ==
    JobinfoVariant(e, fsys, d, c, l, create, e.local = <<>> \/ e.modified, FALSE)

\* DocumentInfo.jobinfo(create)
jobinfo(e, fsys, d, c, l, create) ==
    LET filename == e.local
        mode_    == mode(d, TRUE).v
        OfMaster(m) ==
            IF CanOpen(fsys, m)
            THEN JobLeft(Ret(Job(m, textmode(ReadText(fsys, m), TRUE).v, <<>>)),
                         fsys, e, c, l)
            ELSE JobLeft(Raised("IOError"), fsys, e, c, l)
        Created(h) ==
            JobLeft(Ret(Job(ScratchPath, mode_,
                            IF h.res.st = "ret" THEN <<dirname(filename)>> ELSE <<>>)),
                    saveDocument(fsys, d), [e EXCEPT !.scratch = ScratchPath],
                    h.cache, h.listeners)
        OfDocument ==
            IF filename = <<>> \/ e.modified
            THEN IF create
                 THEN Only({Created(h) : h \in
                        {IF filename # <<>> THEN CallCached(c, l, d, "hasinclude")
                         ELSE [res |-> None, cache |-> c, listeners |-> l]}})
                 ELSE IF e.scratch # <<>> /\ exists(fsys, e.scratch)
                      THEN JobLeft(Ret(Job(e.scratch, mode_, <<>>)), fsys, e, c, l)
                      ELSE JobLeft(Ret(Job(filename, mode_, <<>>)), fsys, e, c, l)
            ELSE JobLeft(Ret(Job(filename, mode_, <<>>)), fsys, e, c, l)
    IN  Only({IF m # <<>> THEN OfMaster(m) ELSE OfDocument : m \in {master(e, fsys)}})

\* "for filename in includes: yield outputargsinfile(filename)": the arguments
\* of the files one after the other, acc holding those gathered so far.  The
\* set is walked in an order the program does not choose; the order decides
\* only which files were scanned before an IOError leaves the loop.
RECURSIVE ScanFiles(_, _, _, _)
ScanFiles(files, oc, fsys, acc) ==
    IF files = {} THEN [res |-> Ret(acc), cache |-> oc]
    ELSE Only({Only({IF r.res.st # "ret" THEN [res |-> r.res, cache |-> r.cache]
                     ELSE ScanFiles(files \ {f}, r.cache, fsys, acc \o r.res.v) :
                         r \in {outputargsinfile(oc, fsys, f)}}) :
                 f \in {CHOOSE g \in files : TRUE}})

\* The generator args() of basenames run to its end, after includefiles left
\* inc: the output arguments of the document itself when no master is in
\* effect, then those of the included files
GatherArgs(e, fsys, d, inc, oc) ==
    LET noMaster == master(e, fsys) = <<>>
        Scanned(own, scan) ==
            [res |-> IF scan.res.st # "ret" THEN scan.res
                     ELSE Ret(own.res.v \o scan.res.v),
             cache |-> own.cache, listeners |-> own.listeners, outCache |-> scan.cache]
    IN  Only({Scanned(own, scan) :
                own \in {IF noMaster THEN CallCached(inc.cache, inc.listeners, d, "outputargs")
                         ELSE [res |-> Ret(<<>>), cache |-> inc.cache,
                               listeners |-> inc.listeners]},
                scan \in {ScanFiles(IF noMaster THEN inc.res.v \ {e.local} ELSE inc.res.v,
                                    oc, fsys, <<>>)}})

\* The basename with a "name" argument joined to the extension-stripped path
\* of the job instead of its directory
BasenameOf_OnBasepath(dir, base, a) ==
    normpath(join(IF a.kind = "suffix" THEN dir ELSE join(dir, base),
                  IF a.kind = "suffix" THEN base \o <<"-">> \o a.value ELSE a.value))

\* The body of the loop over the arguments: the basename of one output
\* argument, dir and base being os.path.split(basepath)
BasenameOf(dir, base, a) ==
    normpath(join(dir, IF a.kind = "suffix" THEN base \o <<"-">> \o a.value
                       ELSE a.value))

\* How a call of basenames leaves: job and gathered are what jobinfo returned
\* and the output arguments the loop went through
BaseLeft(res, job, gathered, c, l, ic, oc) ==
    [res |-> res, job |-> job, gathered |-> gathered, cache |-> c, listeners |-> l,
     incCache |-> ic, outCache |-> oc]

\* The lilypond branch of basenames once the arguments are gathered
BasenamesOfArgs(job, inc, g) ==
    LET basepath == splitextRoot(job.filename)
        names    == (IF basepath # <<>> THEN {basepath} ELSE {})
                    \cup {BasenameOf(dirname(basepath), basenameOf(basepath), g.res.v[i]) :
                            i \in DOMAIN g.res.v}
    IN  IF g.res.st # "ret"
        THEN BaseLeft(g.res, job, <<>>, g.cache, g.listeners, inc.incCache, g.outCache)
        ELSE BaseLeft(Ret(names), job, g.res.v, g.cache, g.listeners, inc.incCache,
                      g.outCache)

\* DocumentInfo.basenames()
basenames(e, fsys, d, c, l, ic, oc) ==
    LET Included(job, inc) ==
            IF inc.res.st # "ret"
            THEN BaseLeft(inc.res, job, <<>>, inc.cache, inc.listeners, inc.incCache, oc)
            ELSE Only({BasenamesOfArgs(job, inc, g) :
                         g \in {GatherArgs(e, fsys, d, inc, oc)}})
        OfJob(j) ==
            IF j.res.st # "ret" THEN BaseLeft(j.res, Job(<<>>, "", <<>>), <<>>, c, l, ic, oc)
            ELSE IF j.res.v.mode # "lilypond"
            THEN BaseLeft(Ret({}), j.res.v, <<>>, c, l, ic, oc)
            ELSE Only({Included(j.res.v, inc) :
                         inc \in {includefiles(e, fsys, d, c, l, ic)}})
    IN  Only({OfJob(j) : j \in {jobinfo(e, fsys, d, c, l, FALSE)}})

-----------------------------------------------------------------------------
(* SpecBase: jobinfo() and basenames() on a document, its files and its
   scratch area *)

Naming(str) == <<CmdName, Space, Quote, str, Quote>>
Suffixing(str) == <<CmdSuffix, Space, Quote, str, Quote>>

BaseStreams ==
    {<<>>, Naming(StrB), Suffixing(StrB), Including(StrBly),
     Including(StrBly) \o Suffixing(StrB)}

\* What /d/b.ly may hold: output arguments, an include of the document (as
\* "a.ly" or as "./a.ly"), or a text of another dialect
BaseTexts ==
    {TextOf(s) : s \in {Naming(StrB), Suffixing(StrB), Including(StrA) \o Naming(StrA),
                        Including(StrDotA)}}
    \cup {[tokens |-> <<>>, vmode |-> "html", guess |-> "lilypond"]}

BaseDisks ==
    {(Chars_d :> DirEntry) @@ (FileA :> FileEntry(TextOf(sa), 1, TRUE))
          @@ [f \in withB |-> FileEntry(tb, 1, TRUE)] :
        sa \in {<<>>, Naming(StrA)}, tb \in BaseTexts, withB \in {{}, {FileB}}}

BaseEnvs ==
    [local : {<<>>, FileA}, vmaster : {<<>>, NameB}, ipath : {<<>>},
     modified : BOOLEAN, scratch : {<<>>}]

BaseInit ==
    /\ fs \in BaseDisks
    /\ env \in BaseEnvs
    /\ doc \in {[NoDoc EXCEPT !.tokens = s, !.vmode = vm] :
                  s \in BaseStreams, vm \in {"", "html"}}
    /\ cache = [m \in CachedMethods |-> NoEntry]
    /\ listeners = [m \in CachedMethods |-> 0]
    /\ incCache = <<>>
    /\ outCache = <<>>
    /\ runReads = <<>>
    /\ runCalls = <<>>
    /\ out = Idle
    /\ DialogIdle

CallBasenames ==
    \E r \in {basenames(env, fs, doc, cache, listeners, incCache, outCache)} :
        /\ out' = [fn |-> "basenames", arg |-> FALSE, ran |-> TRUE, res |-> r.res,
                   job |-> r.job, gathered |-> r.gathered]
        /\ cache' = r.cache
        /\ listeners' = r.listeners
        /\ incCache' = r.incCache
        /\ outCache' = r.outCache
        /\ UNCHANGED <<dialogVars, doc, fs, env, runReads, runCalls>>

CallJobinfo(create) ==
    \E r \in {jobinfo(env, fs, doc, cache, listeners, create)} :
        /\ ScratchPath \in DOMAIN fs => fs[ScratchPath].mtime < MaxMtime
        /\ out' = [fn |-> "jobinfo", arg |-> create, ran |-> TRUE, res |-> r.res]
        /\ fs' = r.fs
        /\ env' = r.env
        /\ cache' = r.cache
        /\ listeners' = r.listeners
        /\ UNCHANGED <<dialogVars, doc, incCache, outCache, runReads, runCalls>>

\* The temporary area is cleaned: the scratch file is gone from the disk, the
\* scratch area still answers its path
RemoveScratch ==
    /\ ScratchPath \in DOMAIN fs
    /\ fs' = [f \in DOMAIN fs \ {ScratchPath} |-> fs[f]]
    /\ out' = [fn |-> "removeScratch", arg |-> FALSE, ran |-> FALSE, res |-> None]
    /\ UNCHANGED <<dialogVars, doc, env, cache, listeners, incCache, outCache, runReads, runCalls>>

BaseNext ==
    \/ CallBasenames
    \/ \E create \in BOOLEAN : CallJobinfo(create)
    \/ RemoveScratch

SpecBase == BaseInit /\ [][BaseNext]_vars

-----------------------------------------------------------------------------
(* SessionEditor (sessiondialog.py): the dialog that edits one session *)

\* The name validate() refuses
NoneName == <<"n", "o", "n", "e">>

\* What unicode.strip() removes
Whitespace == {" ", "\t", "\n"}

\* text.strip(): leading and trailing whitespace removed
strip(text) ==
    IF \A i \in DOMAIN text : text[i] \in Whitespace THEN <<>>
    ELSE SubSeq(text,
                CHOOSE i \in DOMAIN text :
                    text[i] \notin Whitespace /\ \A h \in 1..(i - 1) : text[h] \in Whitespace,
                CHOOSE i \in DOMAIN text :
                    text[i] \notin Whitespace
                    /\ \A h \in (i + 1)..Len(text) : text[h] \in Whitespace)

\* sessionmanager.sessionNames()
sessionNames(ss) == DOMAIN ss

\* sessionmanager.renameSession(old, new): the settings of old are found under
\* new, whatever new held before
renameSession(ss, old, new) ==
    [n \in (DOMAIN ss \ {old}) \cup {new} |-> IF n = new THEN ss[old] ELSE ss[n]]

\* SessionEditor.load(name): the state of the autosave check box
load(ss, name) == IF name \in DOMAIN ss THEN ss[name].autosave ELSE TRUE

\* SessionEditor.save(name): the settings group of name gets the check box
save(ss, name, autosave) ==
    [n \in DOMAIN ss \cup {name} |-> IF n = name THEN [autosave |-> autosave] ELSE ss[n]]

\* SessionEditor.defaults()
defaults == TRUE

\* validate() without the question about a name that exists already
validate_NoQuestion(d, ss, overwrite) ==
    IF strip(d.name) = <<>>
    THEN [ok |-> FALSE, asked |-> FALSE,
          name |-> IF d.originalName # <<>> THEN d.originalName ELSE <<>>]
    ELSE IF strip(d.name) = NoneName
    THEN [ok |-> FALSE, asked |-> FALSE, name |-> strip(d.name)]
    ELSE [ok |-> TRUE, asked |-> FALSE, name |-> strip(d.name)]

\* SessionEditor.validate(): ok is what it returns, name the text it leaves in
\* the line edit, asked whether the Overwrite question was shown; overwrite is
\* the user's answer to that question
validate(d, ss, overwrite) ==
    IF strip(d.name) = <<>>
    THEN [ok |-> FALSE, asked |-> FALSE,
          name |-> IF d.originalName # <<>> THEN d.originalName ELSE <<>>]
    ELSE IF strip(d.name) = NoneName
    THEN [ok |-> FALSE, asked |-> FALSE, name |-> strip(d.name)]
    ELSE IF d.originalName # strip(d.name) /\ strip(d.name) \in sessionNames(ss)
    THEN [ok |-> overwrite, asked |-> TRUE, name |-> strip(d.name)]
    ELSE [ok |-> TRUE, asked |-> FALSE, name |-> strip(d.name)]

\* What the last step of the dialog did: fn is "exec_" (the dialog was
\* opened), "done" (done(result) left it open) or "edit" (edit() returned);
\* arg is the result handed to done()
DialogOut(fn, result, res, validated, overwrote, renamed, saved) ==
    [fn |-> fn, arg |-> result, ran |-> FALSE, res |-> res, validated |-> validated,
     overwrote |-> overwrote, renamed |-> renamed, saved |-> saved]

-----------------------------------------------------------------------------
(* SpecDialog: a SessionEditor opened, typed in, and closed by its buttons *)

SessionA == <<"a">>
SessionB == <<"b">>

\* What the user may leave in the name field
DialogNames ==
    {<<>>, <<" ">>, SessionA, <<" ">> \o SessionA \o <<" ">>, SessionB, NoneName,
     <<" ">> \o NoneName, <<"N", "o", "n", "e">>}

DialogInit ==
    /\ dialog = NoDialog
    /\ sessions \in {[n \in S |-> [autosave |-> TRUE]] : S \in SUBSET {SessionA, SessionB}}
    /\ out = DialogOut("", FALSE, None, FALSE, FALSE, FALSE, FALSE)
    /\ doc = NoDoc
    /\ cache = [m \in CachedMethods |-> NoEntry]
    /\ listeners = [m \in CachedMethods |-> 0]
    /\ FilesIdle
    /\ EnvIdle

DialogOthers == UNCHANGED <<docVars, fileVars, env>>

\* edit(name) up to exec_(): name is empty for a new session
CallEdit(name) ==
    /\ ~dialog.open
    /\ name = <<>> \/ name \in sessionNames(sessions)
    /\ dialog' = [open |-> TRUE, name |-> name, originalName |-> name,
                  autosave |-> IF name # <<>> THEN load(sessions, name) ELSE defaults]
    /\ out' = DialogOut("exec_", FALSE, None, FALSE, FALSE, FALSE, FALSE)
    /\ UNCHANGED sessions
    /\ DialogOthers

\* The user edits the name field
TypeName(text) ==
    /\ dialog.open
    /\ dialog' = [dialog EXCEPT !.name = text]
    /\ UNCHANGED <<out, sessions>>
    /\ DialogOthers

\* The user clicks the autosave check box
ToggleAutosave ==
    /\ dialog.open
    /\ dialog' = [dialog EXCEPT !.autosave = ~@]
    /\ UNCHANGED <<out, sessions>>
    /\ DialogOthers

\* done(result), by OK (accept) or by Cancel, Escape or the window's close
\* button (reject); when it closes the dialog exec_() returns result and
\* edit() runs to its end
Done(result, overwrite) ==
    /\ dialog.open
    /\ IF ~result
       THEN /\ dialog' = [dialog EXCEPT !.open = FALSE]
            /\ out' = DialogOut("edit", result, None, FALSE, FALSE, FALSE, FALSE)
            /\ UNCHANGED sessions
       ELSE \E v \in {validate(dialog, sessions, overwrite)} :
              IF ~v.ok
              THEN /\ dialog' = [dialog EXCEPT !.name = v.name]
                   /\ out' = DialogOut("done", result, None, TRUE, FALSE, FALSE, FALSE)
                   /\ UNCHANGED sessions
              ELSE \E renamed \in {dialog.originalName # <<>> /\ v.name # dialog.originalName} :
                     /\ dialog' = [dialog EXCEPT !.open = FALSE, !.name = v.name]
                     /\ sessions' = save(IF renamed
                                         THEN renameSession(sessions, dialog.originalName,
                                                            v.name)
                                         ELSE sessions,
                                         v.name, dialog.autosave)
                     /\ out' = DialogOut("edit", result, Ret(v.name), TRUE,
                                         v.asked /\ overwrite, renamed, TRUE)
    /\ DialogOthers

DialogNext ==
    \/ \E name \in {strip(text) : text \in DialogNames} : CallEdit(name)
    \/ \E text \in DialogNames : TypeName(text)
    \/ ToggleAutosave
    \/ \E result \in BOOLEAN, overwrite \in BOOLEAN : Done(result, overwrite)

SpecDialog == DialogInit /\ [][DialogNext]_vars

-----------------------------------------------------------------------------
(* Claims about the extractors and queries (SpecScan) *)

IsInclude(tok) == tok.k = "Keyword" /\ tok.t = IncludeText

\* The next significant token after i: the first that is neither space nor
\* comment, 0 when there is none.
NextSignificant(s, i) ==
    IF \E j \in (i + 1)..Len(s) : s[j].k \notin SkipKinds
    THEN CHOOSE j \in (i + 1)..Len(s) :
            /\ s[j].k \notin SkipKinds
            /\ \A h \in (i + 1)..(j - 1) : s[h].k \in SkipKinds
    ELSE 0

\* The next quote after j, Len(s) + 1 when the stream ends first.
MatchingQuote(s, j) ==
    IF \E k \in (j + 1)..Len(s) : s[k].t = QuoteText
    THEN CHOOSE k \in (j + 1)..Len(s) :
            /\ s[k].t = QuoteText
            /\ \A h \in (j + 1)..(k - 1) : s[h].t # QuoteText
    ELSE Len(s) + 1

\* What the claim says includeargs yields: one string for every \include whose
\* next significant token is a quote; an \include without one yields nothing
\* and the scan goes on with the token after that \include.
RECURSIVE ClaimedIncludeArgs(_, _)
ClaimedIncludeArgs(s, i) ==
    IF i > Len(s) THEN <<>>
    ELSE IF IsInclude(s[i])
         THEN LET j == NextSignificant(s, i)
              IN  IF j # 0 /\ s[j].t = QuoteText
                  THEN <<Join(SubSeq(s, j + 1, MatchingQuote(s, j) - 1))>>
                       \o ClaimedIncludeArgs(s, MatchingQuote(s, j) + 1)
                  ELSE ClaimedIncludeArgs(s, i + 1)
         ELSE ClaimedIncludeArgs(s, i + 1)

\* C5: for every finite token stream includeargs yields, in order, one string
\* for every \include keyword whose next significant token is a quote, and an
\* \include not followed by a quote yields nothing without hiding any later
\* \include.
C5_IncludeArgsAsClaimed ==
    out.fn = "includeargs" => out.res.v = ClaimedIncludeArgs(doc.tokens, 1)

IsVersion(tok) == tok.k = "Keyword" /\ tok.t = VersionText

HasVersionKeyword(s) == \E i \in 1..Len(s) : IsVersion(s[i])

FirstVersionKeyword(s) ==
    CHOOSE i \in 1..Len(s) : IsVersion(s[i]) /\ \A h \in 1..(i - 1) : ~IsVersion(s[h])

\* The mode the document reports: the declared one when it is known, else the guess
DocMode(d) == IF d.vmode \in Modes THEN d.vmode ELSE d.guess

\* C6: version() returns the outcome of the first applicable step of the chain
\* in-stream \version keyword, "version" variable, raw-text search (only when
\* the mode is not lilypond); later steps are not consulted.  A document with
\* \version "2.20.0" in its syntax and the variable 2.18.0 reports (2,20,0); a
\* lilypond document with neither keyword nor variable reports None even when
\* its text holds a \version string.
C6_VersionChain ==
    out.fn = "version" =>
        LET s == doc.tokens
        IN  /\ HasVersionKeyword(s)
                => out.res = VersionInSyntax(s, FirstVersionKeyword(s))
            /\ ~HasVersionKeyword(s) /\ doc.vversion # <<>>
                => out.res = Ret(FindallInts(doc.vversion, 1))
            /\ ~HasVersionKeyword(s) /\ doc.vversion = <<>> /\ DocMode(doc) # "lilypond"
                => out.res = VersionFromText(doc)
            /\ ~HasVersionKeyword(s) /\ doc.vversion = <<>> /\ DocMode(doc) = "lilypond"
                => out.res = None
            /\ s = <<KwVersion, Quote, StrV, Quote>> /\ doc.vversion = Version218
                => out.res = Ret(<<2, 20, 0>>)
            /\ s = <<CommentV>> /\ doc.vversion = <<>> /\ DocMode(doc) = "lilypond"
                => out.res = None
            /\ s = <<CommentV>> /\ doc.vversion = <<>> /\ DocMode(doc) = "html"
                => out.res = Ret(<<2, 16>>)

C6_Witness ==
    /\ out.fn = "version"
    /\ doc.tokens = <<KwVersion, Quote, StrV, Quote>>
    /\ doc.vversion = Version218
    /\ out.res = Ret(<<2, 20, 0>>)

\* The first significant token after the first \version keyword, 0 when there
\* is no keyword or nothing significant follows it
VersionArgument(s) ==
    IF HasVersionKeyword(s) THEN NextSignificant(s, FirstVersionKeyword(s)) ELSE 0

\* Where the bare version starting at j ends: the next space or comment token,
\* Len(s) + 1 when there is none
BareEnd(s, j) ==
    IF \E e \in (j + 1)..Len(s) : s[e].k \in SkipKinds
    THEN CHOOSE e \in (j + 1)..Len(s) :
            /\ s[e].k \in SkipKinds
            /\ \A h \in (j + 1)..(e - 1) : s[h].k \notin SkipKinds
    ELSE Len(s) + 1

\* C14: when the first \version keyword is followed, after space and comment
\* tokens, by a token that is not a quote, version() does not raise and
\* returns the integers of the bare tokens from that token up to the next
\* space or comment token.
C14_BareVersion ==
    out.fn = "version" =>
        LET s == doc.tokens
            j == VersionArgument(s)
        IN  j # 0 /\ s[j].t # QuoteText =>
                out.res = Ret(FindallInts(Join(SubSeq(s, j, BareEnd(s, j) - 1)), 1))

\* C15: when the first \version keyword is followed by a quoted string
\* without digits, version() returns the empty tuple without raising; the
\* "version" variable and the raw text are not consulted.
C15_NoDigitsEmptyTuple ==
    out.fn = "version" =>
        LET s == doc.tokens
            j == VersionArgument(s)
        IN  (/\ j # 0
             /\ s[j].t = QuoteText
             /\ \A h \in 1..Len(Join(SubSeq(s, j + 1, MatchingQuote(s, j) - 1))) :
                   Join(SubSeq(s, j + 1, MatchingQuote(s, j) - 1))[h] \notin DigitChars)
                => out.res = Ret(<<>>)

\* \version "a.ly" in a document whose variable says 2.18.0 and whose text is
\* not lilypond
C15_Witness ==
    /\ out.fn = "version"
    /\ doc.tokens = <<KwVersion, Quote, StrA, Quote>>
    /\ doc.vversion = Version218
    /\ DocMode(doc) = "html"
    /\ out.res = Ret(<<>>)

\* The stream ends inside the quoted argument of its first trigger (triggers
\* are the indexes of the trigger tokens): no trigger before the one at i, its
\* next significant token (skipping the kinds the
\* extractor skips) is the quote at j, and no quote follows.
EndsInsideArgument(s, i, j, triggers, kinds) ==
    /\ i \in triggers
    /\ \A h \in 1..(i - 1) : h \notin triggers
    /\ j > i
    /\ \A h \in (i + 1)..(j - 1) : s[h].k \in kinds
    /\ s[j].t = QuoteText
    /\ \A h \in (j + 1)..Len(s) : s[h].t # QuoteText

Triggers(s, fn) ==
    {h \in 1..Len(s) : CASE fn = "includeargs" -> IsInclude(s[h])
                         [] fn = "outputargs"  -> Found(s[h]) # ""
                         [] fn = "version"     -> IsVersion(s[h])}

C16_WitnessVersion ==
    /\ out.fn = "version"
    /\ doc.tokens = <<KwVersion, Quote, StrV>>
    /\ out.res = Ret(<<2, 20, 0>>)

\* C7: a declared known mode is returned without guessing; otherwise with
\* guess=true the heuristic is invoked and its answer returned, and with
\* guess=false the heuristic is not invoked and the result is absent.
C7_ModeClassification ==
    out.fn \in {"mode", "textmode"} =>
        /\ doc.vmode \in Modes
            => out.res.st = "ret" /\ out.res.v = doc.vmode /\ out.res.guessed = 0
        /\ doc.vmode \notin Modes /\ out.arg
            => out.res.st = "ret" /\ out.res.v = doc.guess /\ out.res.guessed = 1
        /\ doc.vmode \notin Modes /\ ~out.arg
            => out.res.st = "none" /\ out.res.guessed = 0

C7_Witness ==
    /\ out.fn = "mode"
    /\ ~out.arg
    /\ doc.vmode = "nomode"
    /\ doc.guess = "lilypond"
    /\ out.res.st = "none"

-----------------------------------------------------------------------------
(* Claims about the per-document cache (SpecDoc) *)

\* C1: for each cached method and every interleaving of calls with edits, a
\* call returns what a fresh computation on the current text returns, no value
\* of an earlier revision is kept past a content change, and the first call
\* after a change runs the computation again.
C1_CacheCoherent ==
    /\ [](out.fn \in CachedMethods => out.res = Func(out.fn, doc))
    /\ [](\A m \in CachedMethods : cache[m].has => cache[m].val = Func(m, doc))
    /\ [][out.fn = "contentsChanged" /\ out'.fn \in CachedMethods => out'.ran]_vars

\* version() was computed, the text changed so that the version differs, and
\* the next call computed the new value
C1_Witness ==
    /\ out.fn = "version"
    /\ out.ran
    /\ out.res = Ret(<<2, 20, 0>>)
    /\ doc.vversion = Version218
    /\ cache["version"].has
    /\ cache["includeargs"].has

\* C20: for every cached method a content-change listener is connected if
\* and only if the cache has an entry for the method, never more than one; a
\* content change removes every such entry with its listener (and nothing is
\* left connected), and a query after it that returns stores a fresh entry
\* with one fresh listener.
C20_ListenerIffEntry ==
    /\ [](\A m \in CachedMethods :
            /\ listeners[m] \in {0, 1}
            /\ listeners[m] = 1 <=> cache[m].has)
    /\ [][out'.fn = "contentsChanged" =>
            \A m \in CachedMethods : ~cache'[m].has /\ listeners'[m] = 0]_vars
    /\ [][out.fn = "contentsChanged" /\ out'.fn \in CachedMethods
            /\ out'.res.st \in {"ret", "none"} =>
            /\ cache'[out'.fn].has
            /\ listeners'[out'.fn] = 1
            /\ \A m \in CachedMethods \ {out'.fn} : ~cache'[m].has /\ listeners'[m] = 0]_vars

\* After an edit two methods were queried, one of them twice: each has its
\* entry and its one listener, the others have neither
C20_Witness ==
    /\ doc.tokens # <<>>
    /\ out.fn = "version"
    /\ ~out.ran
    /\ cache["version"].has /\ listeners["version"] = 1
    /\ cache["includeargs"].has /\ listeners["includeargs"] = 1
    /\ ~cache["outputargs"].has /\ listeners["outputargs"] = 0

-----------------------------------------------------------------------------
(* Claims about the cached file readers (SpecFile) *)

TheCache(fn) == IF fn = "includeargsinfile" THEN incCache ELSE outCache

\* C2: for each of the two readers and every path, the file is read and
\* parsed exactly once in each maximal run of returned calls during which its
\* modification time does not change; a change of the modification time
\* forces exactly one more read on the next call.
C2_OneReadPerRun ==
    \A fn \in FileFns : \A f \in FileNames :
        /\ runCalls[fn][f] > 0 => runReads[fn][f] = 1
        /\ runCalls[fn][f] = 0 => runReads[fn][f] = 0

\* The file was read, changed, and read once more; two further calls were
\* answered from the cache
C2_Witness ==
    /\ fs[FileA].mtime = 2
    /\ FileA \in DOMAIN outCache
    /\ outCache[FileA].mtime = 1
    /\ runCalls["includeargsinfile"][FileA] = 3
    /\ runReads["includeargsinfile"][FileA] = 1
    /\ out.fn = "includeargsinfile"
    /\ ~out.ran

\* C10: when open() fails inside one of the readers the IOError reaches the
\* caller, no cache entry is created or replaced for the path, and the next
\* call for the path opens the file again.
C10_FailedReadNotCached ==
    /\ [](out.fn \in FileFns /\ out.ran /\ ~CanOpen(fs, out.arg)
            => /\ out.res.st = "IOError"
               /\ ~FileCacheHit(TheCache(out.fn), fs, out.arg))
    /\ [][out'.fn \in FileFns /\ out'.res.st = "IOError"
            => /\ out'.arg \in DOMAIN incCache' => out'.arg \in DOMAIN incCache
               /\ out'.arg \in DOMAIN outCache' => out'.arg \in DOMAIN outCache
               /\ \A f \in DOMAIN incCache' \cap DOMAIN incCache : incCache'[f] = incCache[f]
               /\ \A f \in DOMAIN outCache' \cap DOMAIN outCache : outCache'[f] = outCache[f]]_vars
    /\ [][out.fn \in FileFns /\ out.res.st = "IOError"
            /\ out'.fn = out.fn /\ out'.arg = out.arg => out'.ran]_vars

\* A read failed on a file whose cached arguments had gone stale, the error
\* reached the caller and nothing is cached for the path in that cache
C10_Witness ==
    /\ out.fn = "includeargsinfile"
    /\ out.ran
    /\ out.res.st = "IOError"
    /\ ~fs[FileA].readable
    /\ fs[FileA].mtime = 2
    /\ FileA \notin DOMAIN incCache
    /\ FileA \in DOMAIN outCache

-----------------------------------------------------------------------------
(* Claims about includefiles (SpecIncl) *)

\* The two-file cycle: the document is A and includes B, B includes A, and no
\* master is in effect
TwoFileCycle ==
    /\ env.local = FileA
    /\ master(env, fs) = <<>>
    /\ doc.tokens = Including(StrBly)
    /\ FileB \in DOMAIN fs
    /\ fs[FileB].text.tokens = Including(StrA)

\* C3: includefiles() terminates (it returns, it does not run into the
\* recursion limit) on every arrangement of files and include arguments, and
\* on the two-file cycle it returns exactly {A, B}.
C3_TerminatesOnCycles ==
    out.fn = "includefiles" =>
        /\ out.res.st = "ret"
        /\ TwoFileCycle => out.res.v = {FileA, FileB}

\* The locations of one logged argument in the order of the claim: the
\* directory of the including file, the base directory, the include path
LocationsOf(en) ==
    LET filename == IF master(env, fs) # <<>> THEN master(env, fs) ELSE env.local
        places   == Places([basedir |-> dirname(filename), ipath |-> includepath(env)],
                           en.directory)
    IN  [i \in 1..Len(places) |-> join(places[i], en.arg)]

Existing(en) == {i \in DOMAIN LocationsOf(en) : exists(fs, LocationsOf(en)[i])}

FirstExisting(en) ==
    LocationsOf(en)[CHOOSE i \in Existing(en) : \A h \in Existing(en) : i <= h]

\* C4: for every include argument of a call that returned, the first location
\* where the file exists is the one in the set and no later location is added
\* for the argument; when no location has the file nothing is added.
C4_FirstLocationWins ==
    out.fn = "includefiles" /\ out.res.st = "ret" =>
        \A k \in 1..Len(out.log) :
            LET en == out.log[k]
            IN  IF Existing(en) = {} THEN en.added = {}
                ELSE /\ en.added \subseteq {FirstExisting(en)}
                     /\ FirstExisting(en) \in en.before \cup en.added

\* C13: when an include argument resolves to a path that is already in the
\* files set (the first location where the file exists was visited before),
\* processing the argument is a no-op: no file is added on its behalf.
C13_VisitedIsNoOp ==
    out.fn = "includefiles" /\ out.res.st = "ret" =>
        \A k \in 1..Len(out.log) :
            LET en == out.log[k]
            IN  Existing(en) # {} /\ FirstExisting(en) \in en.before =>
                    en.added = {}

\* The first include argument of the document resolves, in the document's
\* own directory, to a path that exists and is a directory
FirstArgIsDirectory ==
    /\ env.local # <<>>
    /\ master(env, fs) = <<>>
    /\ includeargs(doc.tokens) # <<>>
    /\ IsDir(fs, join(dirname(env.local), includeargs(doc.tokens)[1]))

\* C17: an include argument that resolves to a path which exists but is not
\* a regular file is added to the files set without being opened, and
\* includefiles() completes without raising.
C17_DirectoryNotOpened ==
    out.fn = "includefiles" /\ FirstArgIsDirectory =>
        /\ out.res.st = "ret"
        /\ join(dirname(env.local), includeargs(doc.tokens)[1]) \in out.res.v

\* C9: the set includefiles() returns holds the document's local filename
\* whenever there is one, a master in effect or not, and is empty when the
\* document has neither a master nor a local path.
C9_OwnFilenameIncluded ==
    out.fn = "includefiles" /\ out.res.st = "ret" =>
        /\ env.local # <<>> => env.local \in out.res.v
        /\ env.local = <<>> /\ master(env, fs) = <<>> => out.res.v = {}

-----------------------------------------------------------------------------
(* Claims about basenames (SpecBase) *)

\* C8: when basenames() returns for a job in lilypond mode, the set holds, for
\* every output argument gathered, <job directory>/<job basename>-<value> when
\* it is a suffix and <job directory>/<value> when it is a name, it holds the
\* job's path without its extension when that is not empty, and nothing else.
C8_BasenamesOfArgs ==
    out.fn = "basenames" /\ out.res.st = "ret" /\ out.job.mode = "lilypond" =>
        LET jobdir   == dirname(out.job.filename)
            jobbase  == splitextRoot(basenameOf(out.job.filename))
            stripped == splitextRoot(out.job.filename)
            Expected(a) ==
                IF a.kind = "suffix"
                THEN normpath(join(jobdir, jobbase \o <<"-">> \o a.value))
                ELSE normpath(join(jobdir, a.value))
        IN  out.res.v = (IF stripped # <<>> THEN {stripped} ELSE {})
                        \cup {Expected(out.gathered[i]) : i \in DOMAIN out.gathered}

\* A lilypond job on a file whose arguments, a suffix and a name, gave two
\* basenames beside the job's own
C8_Witness ==
    /\ out.fn = "basenames"
    /\ out.res.st = "ret"
    /\ out.job.mode = "lilypond"
    /\ out.job.filename # <<>>
    /\ \E i, k \in DOMAIN out.gathered :
          out.gathered[i].kind = "suffix" /\ out.gathered[k].kind = "name"
    /\ Cardinality(out.res.v) = 3

\* The elements of a sequence
Range(seq) == {seq[i] : i \in DOMAIN seq}

\* The output arguments a file on disk holds
ArgsOnDisk(f) == outputargs(ReadText(fs, f).tokens)

\* The set includefiles() answers in this state
IncludeSet == includefiles(env, fs, doc, cache, listeners, incCache).res.v

\* The files outputargsinfile has read so far (every one of them was read by
\* basenames: nothing else calls outputargsinfile here)
ScannedFiles == DOMAIN outCache

\* C18: in basenames() for lilypond mode, when no master is in effect the
\* document's own output arguments are taken from the live document and the
\* document's own file is not scanned on disk; when a master is in effect the
\* document's own directives contribute nothing and the output arguments of
\* every file of the include set, the master among them, are scanned from
\* disk.
C18_GatheredArguments ==
    out.fn = "basenames" /\ out.res.st = "ret" /\ out.job.mode = "lilypond" =>
        IF master(env, fs) = <<>>
        THEN /\ SubSeq(out.gathered, 1, Len(outputargs(doc.tokens)))
                    = outputargs(doc.tokens)
             /\ Range(out.gathered) = Range(outputargs(doc.tokens))
                    \cup UNION {Range(ArgsOnDisk(f)) : f \in IncludeSet \ {env.local}}
             /\ \A f \in ScannedFiles : normpath(f) # env.local
        ELSE /\ master(env, fs) \in IncludeSet
             /\ IncludeSet \subseteq ScannedFiles
             /\ Range(out.gathered) = UNION {Range(ArgsOnDisk(f)) : f \in IncludeSet}

\* No master: the document names its output in its text, its file on disk
\* names another, an included file includes the document back, and only the
\* live text and the included file count
C18_Witness ==
    /\ out.fn = "basenames"
    /\ out.res.st = "ret"
    /\ out.job.mode = "lilypond"
    /\ master(env, fs) = <<>>
    /\ env.local = FileA
    /\ FileB \in IncludeSet
    /\ outputargs(doc.tokens) # <<>>
    /\ ArgsOnDisk(FileA) # <<>>
    /\ Range(ArgsOnDisk(FileA)) \cap Range(out.gathered) = {}
    /\ ScannedFiles = {FileB}

\* A master in effect: the document's own directives are not among the
\* gathered arguments, the master's are
C18_WitnessMaster ==
    /\ out.fn = "basenames"
    /\ out.res.st = "ret"
    /\ out.job.mode = "lilypond"
    /\ master(env, fs) = FileB
    /\ outputargs(doc.tokens) # <<>>
    /\ Range(outputargs(doc.tokens)) \cap Range(out.gathered) = {}
    /\ Range(ArgsOnDisk(FileB)) \subseteq Range(out.gathered)
    /\ out.gathered # <<>>

-----------------------------------------------------------------------------
(* Claims about jobinfo (SpecBase) *)

\* The text saveDocument() writes for the document
DocText == [tokens |-> doc.tokens, vmode |-> doc.vmode, guess |-> doc.guess]

\* jobinfo(create) returned the scratch file's path, and the scratch file on
\* disk holds the document
ScratchReturned ==
    /\ out.res.st = "ret"
    /\ env.scratch # <<>>
    /\ out.res.v.filename = env.scratch
    /\ CanOpen(fs, env.scratch)
    /\ ReadText(fs, env.scratch) = DocText

\* C11 as stated: for every document without a local path or with unsaved
\* modifications, jobinfo(create=true) writes the document to its scratch
\* file and returns the scratch file's path.
C11_ScratchForEveryDocument ==
    out.fn = "jobinfo" /\ out.arg /\ (env.local = <<>> \/ env.modified) =>
        ScratchReturned

\* C11 as amended: the same for every document for which no master is in
\* effect.
C11_ScratchWithoutMaster ==
    out.fn = "jobinfo" /\ out.arg /\ master(env, fs) = <<>>
        /\ (env.local = <<>> \/ env.modified) =>
        ScratchReturned

\* A modified document with a local path and no master, saved to scratch
C11_Witness ==
    /\ out.fn = "jobinfo"
    /\ out.arg
    /\ master(env, fs) = <<>>
    /\ env.local # <<>>
    /\ env.modified
    /\ doc.tokens # <<>>
    /\ ScratchReturned

\* What jobinfo(create=false) answers for a document without a master that
\* has no local path or is modified
C12_Answer ==
    out.fn = "jobinfo" /\ ~out.arg /\ master(env, fs) = <<>>
        /\ (env.local = <<>> \/ env.modified) =>
        /\ out.res.st = "ret"
        /\ out.res.v.filename =
              IF env.scratch # <<>> /\ exists(fs, env.scratch)
              THEN env.scratch ELSE env.local

C12_ScratchGone ==
    /\ out.fn = "jobinfo"
    /\ ~out.arg
    /\ master(env, fs) = <<>>
    /\ env.scratch # <<>>
    /\ ~exists(fs, env.scratch)
    /\ out.res.st = "ret"
    /\ out.res.v.filename = env.local

\* This call of jobinfo wrote the scratch file
C19_ScratchWritten ==
    out.arg /\ master(env, fs) = <<>> /\ (env.local = <<>> \/ env.modified)

-----------------------------------------------------------------------------
(* Claims about the SessionEditor (SpecDialog) *)

\* The dialog closes in this step
DialogCloses == dialog.open /\ ~dialog'.open

\* The name in the field when the button is clicked is acceptable: stripped
\* it is not empty, not 'none', and it is the original name, or no session
\* has it, or the user answered Overwrite
AcceptableName ==
    /\ strip(dialog.name) # <<>>
    /\ strip(dialog.name) # NoneName
    /\ \/ strip(dialog.name) = dialog.originalName
       \/ strip(dialog.name) \notin sessionNames(sessions)
       \/ out'.overwrote

\* C21: the SessionEditor closes with an accepted result only when the name,
\* stripped, is not empty, not 'none', and equals the original name, is not
\* an existing session name, or the user confirmed Overwrite; edit() renames
\* or saves a session and returns a name only then (the stripped name, saved
\* with the dialog's settings); a cancelled dialog closes without validation,
\* returns nothing and renames and saves nothing.
C21_AcceptedOnlyWhenValid ==
    /\ [][DialogCloses /\ out'.arg =>
            /\ AcceptableName
            /\ out'.validated
            /\ out'.res = Ret(strip(dialog.name))
            /\ strip(dialog.name) \in sessionNames(sessions')
            /\ sessions'[strip(dialog.name)].autosave = dialog.autosave
            /\ out'.renamed => dialog.originalName \notin sessionNames(sessions')]_vars
    /\ [][DialogCloses /\ ~out'.arg =>
            /\ ~out'.validated
            /\ out'.res = None
            /\ ~out'.renamed /\ ~out'.saved
            /\ sessions' = sessions]_vars
    /\ [][sessions' # sessions \/ out'.res # None \/ out'.renamed \/ out'.saved =>
            DialogCloses /\ out'.arg]_vars

\* Session a was edited, named b although a session b existed, the user
\* answered Overwrite, and edit() renamed a to b and returned b
C21_Witness ==
    /\ out.fn = "edit"
    /\ out.arg
    /\ out.validated /\ out.overwrote /\ out.renamed /\ out.saved
    /\ dialog.originalName = SessionA
    /\ out.res = Ret(SessionB)
    /\ sessionNames(sessions) = {SessionB}

\* OK was clicked on a name that is not acceptable: the dialog is still open
C21_Refused ==
    /\ out.fn = "done"
    /\ out.arg
    /\ dialog.open
    /\ out.res = None

\* The dialog was cancelled with a name in the field that would not validate
C21_Cancelled ==
    /\ out.fn = "edit"
    /\ ~out.arg
    /\ ~dialog.open
    /\ strip(dialog.name) = NoneName

=============================================================================
